---- MODULE Spec2Model ----
(***************************************************************************)
(* Model of the product QA validators (src/src/qa/validators.py) and of    *)
(* the record shape they are applied to (src/src/models/product.py).       *)
(*                                                                         *)
(* Python values are tagged records [tag, val]; val is always a sequence.  *)
(*   str   : val is the sequence of the string's characters                *)
(*   list  : val is the sequence of the list's elements                    *)
(*   int   : val is <<n>>                                                  *)
(*   dict  : val is the sequence of the dict's values, in a fixed key order *)
(*   None  : val is <<>>                                                   *)
(*   absent: the key is not in the enclosing dict; val is <<>>             *)
(* A call either returns or raises: its outcome is [val, exc], exc being   *)
(* "none" (val is what it returned) or the name of the exception raised.   *)
(***************************************************************************)
EXTENDS Integers, Sequences, FiniteSets

VARIABLES product, rules, entry, pc, errors, idx, skus,
          schemaErrs, contentErrs, platformErrs, result, exc

vars == <<product, rules, entry, pc, errors, idx, skus,
          schemaErrs, contentErrs, platformErrs, result, exc>>

\* ---------------------------------------------------------------- bounds
MaxCategories == 2
MaxPhrases == 2
MaxVariants == 4
MaxImages == 2

\* ------------------------------------------------------- Python values
Str(s) == [tag |-> "str", val |-> s]
List(l) == [tag |-> "list", val |-> l]
IntV(n) == [tag |-> "int", val |-> <<n>>]
Dict(vs) == [tag |-> "dict", val |-> vs]
None == [tag |-> "None", val |-> <<>>]
Absent == [tag |-> "absent", val |-> <<>>]

\* bool(v) of a value held under a key (an absent key never reaches bool()).
Truthy(v) ==
    CASE v.tag = "str" -> v.val # <<>>
      [] v.tag = "list" -> v.val # <<>>
      [] v.tag = "dict" -> v.val # <<>>
      [] v.tag = "int" -> v.val[1] # 0
      [] OTHER -> FALSE

\* d.get(key): None when the key is absent.
Get(v) == IF v.tag = "absent" THEN None ELSE v

\* d.get(key, default)
GetDefault(v, default) == IF v.tag = "absent" THEN default ELSE v

\* x or default
Or(v, default) == IF Truthy(v) THEN v ELSE default

\* len(v) is defined for str and list (and dict); None and int raise TypeError.
HasLen(v) == v.tag \in {"str", "list", "dict"}

\* ------------------------------------------------------------- strings
UpperCase == <<"A","B","C","D","E","F","G","H","I","J","K","L","M",
               "N","O","P","Q","R","S","T","U","V","W","X","Y","Z">>
LowerCase == <<"a","b","c","d","e","f","g","h","i","j","k","l","m",
               "n","o","p","q","r","s","t","u","v","w","x","y","z">>

LowerChar(c) ==
    IF \E i \in 1..26 : UpperCase[i] = c
    THEN LowerCase[CHOOSE i \in 1..26 : UpperCase[i] = c]
    ELSE c

\* str.lower()
Lower(s) == [i \in 1..Len(s) |-> LowerChar(s[i])]

\* needle in hay, for two strings
Contains(needle, hay) ==
    \E k \in 0..(Len(hay) - Len(needle)) :
        SubSeq(hay, k + 1, k + Len(needle)) = needle

\* f"{v}" of a value: a string is itself, None prints as None.
Format(v) ==
    CASE v.tag = "str" -> v.val
      [] v.tag = "None" -> <<"N","o","n","e">>
      [] OTHER -> <<"?">>

supplement == <<"s","u","p","p","l","e","m","e","n","t">>
medical == <<"m","e","d","i","c","a","l">>

\* ------------------------------------------------------------ messages
\* An error message is the text of its f-string and the value interpolated
\* into it (<<>> when there is none).
Msg(text, arg) == [text |-> text, arg |-> arg]

DisclaimerError == Msg("Content: missing required regulatory disclaimer", <<>>)
BannedError(phrase) == Msg("Content: banned phrase detected -> {phrase}", phrase)
TitleError == Msg("SEO: meta_title exceeds 70 chars", <<>>)
DescriptionError == Msg("SEO: meta_description exceeds 160 chars", <<>>)
ImagesError == Msg("Images: at least one product image is required", <<>>)
RootSkuError == Msg("BC: root SKU missing", <<>>)
DuplicateSkuError(sku) == Msg("BC: duplicate variant SKU {sku}", Format(sku))
OptionValuesError(sku) ==
    Msg("BC: variant {sku} missing option_values", Format(sku))
SchemaError(path) == Msg("Schema: {message} at {path}", path)

Returned(v) == [val |-> v, exc |-> "none"]
Raised(e) == [val |-> <<>>, exc |-> e]

\* Faulty variant of AppendAll, for mutation analysis: a rule reports only while nothing was reported yet.
AppendAllUntilFirst(errs, new) == IF errs # <<>> THEN errs ELSE errs \o new

\* errors.append(e) for each e of new, in order
AppendAll(errs, new) == errs \o new

\* ------------------------------------------- content_rules_validate
\* any("supplement" in c.lower() or "medical" in c.lower() for c in cats):
\* scans from element i on and stops at the first match; an element that is
\* not a string has no lower() and raises AttributeError when it is reached.
RECURSIVE AnyRegulated(_, _)
AnyRegulated(cats, i) ==
    IF i > Len(cats) THEN "false"
    ELSE IF cats[i].tag # "str" THEN "AttributeError"
    ELSE IF \/ Contains(supplement, Lower(cats[i].val))
            \/ Contains(medical, Lower(cats[i].val))
         THEN "true"
    ELSE AnyRegulated(cats, i + 1)

\* Faulty variant of DisclaimerRule, for mutation analysis: the required text is looked for ignoring case.
DisclaimerRuleIgnoringCase(p, r) ==
    LET cats == GetDefault(p.categories, List(<<>>))
        disclaimer == GetDefault(p.regulatory_disclaimer, Str(<<>>))
        required == Get(r.required_disclaimer)
    IN  IF cats.tag # "list" THEN Raised("TypeError")
        ELSE LET regulated == AnyRegulated(cats.val, 1)
             IN  IF regulated = "AttributeError" THEN Raised("AttributeError")
                 ELSE IF regulated = "false" THEN Returned(<<>>)
                 ELSE IF ~Truthy(required) THEN Returned(<<>>)
                 ELSE IF disclaimer.tag # "str" THEN Raised("TypeError")
                 ELSE IF ~Contains(Lower(required.val), Lower(disclaimer.val))
                      THEN Returned(<<DisclaimerError>>)
                 ELSE Returned(<<>>)

\* Required disclaimer on medical/supplement categories
DisclaimerRule(p, r) ==
    LET cats == GetDefault(p.categories, List(<<>>))
        disclaimer == GetDefault(p.regulatory_disclaimer, Str(<<>>))
        required == Get(r.required_disclaimer)
    IN  IF cats.tag # "list" THEN Raised("TypeError")
        ELSE LET regulated == AnyRegulated(cats.val, 1)
             IN  IF regulated = "AttributeError" THEN Raised("AttributeError")
                 ELSE IF regulated = "false" THEN Returned(<<>>)
                 ELSE IF ~Truthy(required) THEN Returned(<<>>)
                 ELSE IF disclaimer.tag # "str" THEN Raised("TypeError")
                 ELSE IF ~Contains(required.val, disclaimer.val)
                      THEN Returned(<<DisclaimerError>>)
                 ELSE Returned(<<>>)

\* desc = (description or "") + " " + (short_description or "")
desc(p) ==
    LET d == Or(Get(p.description), Str(<<>>))
        s == Or(Get(p.short_description), Str(<<>>))
    IN  IF d.tag # "str" \/ s.tag # "str" THEN Raised("TypeError")
        ELSE Returned(d.val \o <<" ">> \o s.val)

\* Faulty variant of PhraseOccurs, for mutation analysis: the phrase is looked for as it is spelled.
PhraseOccursExactly(phrase, text) == Contains(phrase, text)

\* phrase.lower() in desc.lower()
PhraseOccurs(phrase, text) == Contains(Lower(phrase), Lower(text))

\* Banned phrases in descriptions
BannedPhrasesRule(p, r) ==
    LET text == desc(p)
        phrases == GetDefault(r.banned_phrases, List(<<>>))
    IN  IF text.exc # "none" THEN Raised(text.exc)
        ELSE LET Hit(ph) == PhraseOccurs(ph.val, text.val)
                 hits == SelectSeq(phrases.val, Hit)
             IN  Returned([i \in 1..Len(hits) |-> BannedError(hits[i].val)])

\* Faulty variant of SeoLimit, for mutation analysis: the limits of the messages, 70 and 160, are used.
SeoLimitFixed(r, k) == Returned(<<IF k = 1 THEN 70 ELSE 160>>)

\* rules["seo"][key]: KeyError when the block or the key is missing.
\* The seo dict holds <<title_max, description_max>>.
SeoLimit(r, k) ==
    IF r.seo.tag # "dict" THEN Raised("KeyError")
    ELSE IF r.seo.val[k].tag = "absent" THEN Raised("KeyError")
    ELSE Returned(r.seo.val[k].val)

\* value and len(value) > limit  (len is evaluated before the limit is read)
ExceedsLimit(value, limit, err) ==
    IF ~Truthy(Get(value)) THEN Returned(<<>>)
    ELSE IF ~HasLen(value) THEN Raised("TypeError")
    ELSE IF limit.exc # "none" THEN Raised(limit.exc)
    ELSE IF Len(value.val) > limit.val[1] THEN Returned(<<err>>)
    ELSE Returned(<<>>)

\* SEO lengths
SeoTitleRule(p, r) == ExceedsLimit(p.meta_title, SeoLimit(r, 1), TitleError)

SeoDescriptionRule(p, r) ==
    ExceedsLimit(p.meta_description, SeoLimit(r, 2), DescriptionError)

\* rules["images"]["min_count"]; the images dict holds <<min_count>>.
MinCount(r) ==
    IF r.images.tag # "dict" THEN Raised("KeyError")
    ELSE IF r.images.val[1].tag = "absent" THEN Raised("KeyError")
    ELSE Returned(r.images.val[1].val)

\* Images
ImagesRule(p, r) ==
    LET images == GetDefault(p.images, List(<<>>))
        limit == MinCount(r)
    IN  IF ~HasLen(images) THEN Raised("TypeError")
        ELSE IF limit.exc # "none" THEN Raised(limit.exc)
        ELSE IF Len(images.val) < limit.val[1] THEN Returned(<<ImagesError>>)
        ELSE Returned(<<>>)

\* The rules in statement order; the first one that raises ends the call.
RuleOrder == <<"disclaimer", "banned", "seo_title", "seo_description", "images">>

ApplyRule(name, p, r) ==
    CASE name = "disclaimer" -> DisclaimerRule(p, r)
      [] name = "banned" -> BannedPhrasesRule(p, r)
      [] name = "seo_title" -> SeoTitleRule(p, r)
      [] name = "seo_description" -> SeoDescriptionRule(p, r)
      [] name = "images" -> ImagesRule(p, r)

RECURSIVE RunRules(_, _, _, _)
RunRules(k, p, r, errs) ==
    IF k > Len(RuleOrder) THEN Returned(errs)
    ELSE LET out == ApplyRule(RuleOrder[k], p, r)
         IN  IF out.exc # "none" THEN Raised(out.exc)
             ELSE RunRules(k + 1, p, r, AppendAll(errs, out.val))

\* The whole call, as a function of its arguments.
content_rules_validate(p, r) == RunRules(1, p, r, <<>>)

\* ---------------------------------------------- bigcommerce_validate
\* product.get("variants", []) or []
variants(p) == Or(GetDefault(p.variants, List(<<>>)), List(<<>>)).val

\* root SKU present
RootSkuErrors(p) == IF ~Truthy(Get(p.sku)) THEN <<RootSkuError>> ELSE <<>>

\* Faulty variant of MissingOptionValues, for mutation analysis: only a missing key counts.
MissingOptionValuesKeyOnly(v) == v.option_values.tag = "absent"

\* "option_values" not in v or not v["option_values"]
MissingOptionValues(v) ==
    v.option_values.tag = "absent" \/ ~Truthy(v.option_values)

\* Faulty variant of VariantErrors, for mutation analysis: the SKU is added to the set before the check.
VariantErrorsAddFirst(v, seen) ==
    (IF v.sku \in seen \cup {v.sku} THEN <<DuplicateSkuError(v.sku)>> ELSE <<>>)
    \o (IF MissingOptionValues(v) THEN <<OptionValuesError(v.sku)>> ELSE <<>>)

\* One pass of the loop body over variant v, seen being the set skus.
VariantErrors(v, seen) ==
    (IF v.sku \in seen THEN <<DuplicateSkuError(v.sku)>> ELSE <<>>)
    \o (IF MissingOptionValues(v) THEN <<OptionValuesError(v.sku)>> ELSE <<>>)

\* The loop from variant k on; v["sku"] of a variant without sku raises.
RECURSIVE VariantLoop(_, _, _, _)
VariantLoop(vs, k, seen, errs) ==
    IF k > Len(vs) THEN Returned(errs)
    ELSE IF vs[k].sku.tag = "absent" THEN Raised("KeyError")
    ELSE VariantLoop(vs, k + 1, seen \cup {vs[k].sku},
                     AppendAll(errs, VariantErrors(vs[k], seen)))

\* The whole call, as a function of its argument.
bigcommerce_validate(p) == VariantLoop(variants(p), 1, {}, RootSkuErrors(p))

\* ------------------------------------------------------ schema_validate
\* The constraints of the schema document in the model's terms: a required
\* field is present, every field present has its type, price is not
\* negative, categories is not empty, every variant has a string sku and a
\* list of option values.  A violation is the path it is found at.
\* The strings of the model are short stand-ins, so the schema's length
\* limits are left out.
Digits == <<"0", "1", "2", "3", "4", "5", "6", "7", "8", "9">>

\* The path of a violation: the field, then the index and the inner field.
At(field) == <<field>>
AtItem(field, i, inner) == <<field, Digits[i + 1], inner>>

IsStr(v) == v.tag = "str"

Violation(broken, path) == IF broken THEN {path} ELSE {}

OptionalStrings ==
    {"short_description", "meta_title", "meta_description",
     "regulatory_disclaimer"}

SchemaViolations(p) ==
    Violation(~IsStr(p.sku), At("sku"))
    \cup Violation(~(p.price.tag = "int" /\ p.price.val[1] >= 0), At("price"))
    \cup Violation(~IsStr(p.description), At("description"))
    \cup Violation(p.images.tag # "list", At("images"))
    \cup Violation(~(p.categories.tag = "list" /\ p.categories.val # <<>>),
                   At("categories"))
    \cup (IF p.categories.tag = "list"
          THEN UNION {Violation(~IsStr(p.categories.val[i]),
                                AtItem("categories", i - 1, ""))
                      : i \in DOMAIN p.categories.val}
          ELSE {})
    \cup UNION {Violation(p[f].tag \notin {"absent", "str"}, At(f))
                : f \in OptionalStrings}
    \cup Violation(p.variants.tag \notin {"absent", "list"}, At("variants"))
    \cup (IF p.variants.tag = "list"
          THEN UNION {Violation(~IsStr(p.variants.val[i].sku),
                                AtItem("variants", i - 1, "sku"))
                      \cup Violation(p.variants.val[i].option_values.tag # "list",
                                     AtItem("variants", i - 1, "option_values"))
                      : i \in DOMAIN p.variants.val}
          ELSE {})

\* The lists schema_validate may return.  validate() raises one
\* ValidationError, the one the library ranks best among the violations, and
\* the handler returns the one-element list made of it; [] when none is
\* raised.  Which violation ranks best depends on the schema document, so
\* any of them may be the one.
schema_validate(p) ==
    IF SchemaViolations(p) = {} THEN {<<>>}
    ELSE {<<SchemaError(v)>> : v \in SchemaViolations(p)}

\* Faulty variant of run_all, for mutation analysis: the later stages are dropped once the schema failed.
run_all_stop_early(s, c, b) == IF s # <<>> THEN s ELSE s \o c \o b

\* -------------------------------------------------------------- run_all
\* schema_validate(...) + content_rules_validate(...) + bigcommerce_validate(...)
run_all(s, c, b) == s \o c \o b

\* ------------------------------------------------------------- actions
\* entry is the function the caller invoked; pc is the statement reached in
\* it.  errors is the local list of the checker that is running.

\* The rule after name, or the return of content_rules_validate.
After(name) ==
    LET k == CHOOSE i \in DOMAIN RuleOrder : RuleOrder[i] = name
    IN  IF k < Len(RuleOrder) THEN RuleOrder[k + 1] ELSE "content_return"

\* One rule of content_rules_validate: its errors are appended, or the
\* exception it raises leaves the call.
RuleStep(name) ==
    /\ LET out == ApplyRule(name, product, rules)
       IN  IF out.exc # "none"
           THEN /\ pc' = "raised"
                /\ exc' = out.exc
                /\ errors' = errors
           ELSE /\ pc' = After(name)
                /\ exc' = exc
                /\ errors' = AppendAll(errors, out.val)
    /\ UNCHANGED <<product, rules, entry, idx, skus, schemaErrs, contentErrs,
                   platformErrs, result>>

SchemaValidate ==
    /\ pc = "schema_validate"
    /\ \E found \in schema_validate(product) : schemaErrs' = found
    /\ pc' = RuleOrder[1]
    /\ UNCHANGED <<product, rules, entry, errors, idx, skus, contentErrs,
                   platformErrs, result, exc>>

Disclaimer ==
    /\ pc = "disclaimer"
    /\ RuleStep("disclaimer")

BannedPhrases ==
    /\ pc = "banned"
    /\ RuleStep("banned")

SeoTitle ==
    /\ pc = "seo_title"
    /\ RuleStep("seo_title")

SeoDescription ==
    /\ pc = "seo_description"
    /\ RuleStep("seo_description")

Images ==
    /\ pc = "images"
    /\ RuleStep("images")

\* return errors
ContentReturn ==
    /\ pc = "content_return"
    /\ contentErrs' = errors
    /\ IF entry = "content_rules_validate"
       THEN /\ result' = errors
            /\ pc' = "done"
       ELSE /\ result' = result
            /\ pc' = "bc_root"
    /\ UNCHANGED <<product, rules, entry, errors, idx, skus, schemaErrs,
                   platformErrs, exc>>

\* errors = []; skus = set(); the root SKU check
RootSku ==
    /\ pc = "bc_root"
    /\ errors' = RootSkuErrors(product)
    /\ skus' = {}
    /\ idx' = 0
    /\ pc' = "bc_variants"
    /\ UNCHANGED <<product, rules, entry, schemaErrs, contentErrs, platformErrs,
                   result, exc>>

\* One iteration of the loop over the variants; v["sku"] of a variant that
\* has no sku key raises KeyError.
VariantStep ==
    /\ pc = "bc_variants"
    /\ idx < Len(variants(product))
    /\ LET v == variants(product)[idx + 1]
       IN  IF v.sku.tag = "absent"
           THEN /\ pc' = "raised"
                /\ exc' = "KeyError"
                /\ UNCHANGED <<errors, skus, idx>>
           ELSE /\ errors' = AppendAll(errors, VariantErrors(v, skus))
                /\ skus' = skus \cup {v.sku}
                /\ idx' = idx + 1
                /\ UNCHANGED <<pc, exc>>
    /\ UNCHANGED <<product, rules, entry, schemaErrs, contentErrs, platformErrs,
                   result>>

\* return errors
PlatformReturn ==
    /\ pc = "bc_variants"
    /\ idx = Len(variants(product))
    /\ platformErrs' = errors
    /\ IF entry = "bigcommerce_validate"
       THEN /\ result' = errors
            /\ pc' = "done"
       ELSE /\ result' = result
            /\ pc' = "run_all_return"
    /\ UNCHANGED <<product, rules, entry, errors, idx, skus, schemaErrs,
                   contentErrs, exc>>

RunAllReturn ==
    /\ pc = "run_all_return"
    /\ result' = run_all(schemaErrs, contentErrs, platformErrs)
    /\ pc' = "done"
    /\ UNCHANGED <<product, rules, entry, errors, idx, skus, schemaErrs,
                   contentErrs, platformErrs, exc>>

\* -------------------------------------------------------------- inputs
\* The calls that are made: a product dict and a rules dict.  The fields of
\* a product that validators.py reads are modelled; a key that is left out
\* of the dict holds Absent.  The records given to content_rules_validate
\* and to bigcommerce_validate on their own have every field absent or of
\* its type; the raw records given to run_all also have null and wrongly
\* typed fields.
Seqs(S, n) == UNION {[1..k -> S] : k \in 0..n}

CatToys == Str(<<"T","o","y","s">>)
CatSupplements == Str(<<"S","u","p","p","L","E","M","E","N","T","S">>)
CatMedical == Str(<<"P","r","e","-","M","e","d","i","c","a","l">>)
CatMedicine == Str(<<"M","e","d","i","c","i","n","e">>)
CategoryPool == {CatToys, CatSupplements, CatMedical, CatMedicine}

Rx == Str(<<"R","x">>)
Empty == Str(<<>>)
RequiredValues == {Absent, Empty, Rx}
DisclaimerValues ==
    {Absent, Empty, Rx, Str(<<"r","x">>), Str(<<"s","e","e"," ","R","x">>)}

PhraseA == Str(<<"A">>)
PhraseB == Str(<<"b">>)
PhraseAB == Str(<<"a"," ","b">>)
PhraseZ == Str(<<"z">>)
PhrasePool == {PhraseA, PhraseB, PhraseAB, PhraseZ}
DescriptionValues == {Absent, Empty, Str(<<"a">>), Str(<<"x","A">>)}
ShortDescriptionValues == {Absent, Str(<<"B">>)}

Url == Str(<<"u">>)
Limits == {0, 1, 2}
LimitValues == {Absent} \cup {IntV(n) : n \in Limits}
TitleValues ==
    {Absent, Empty, Str(<<"t">>), Str(<<"t","t">>), Str(<<"t","t","t">>)}
MetaDescriptionValues == {Absent, Str(<<"d">>), Str(<<"d","d","d">>)}
SeoValues == {Absent} \cup {Dict(<<t, d>>) : t \in LimitValues, d \in LimitValues}
ImagesValues == {Absent} \cup {List([i \in 1..n |-> Url]) : n \in 0..MaxImages}
ImagesRuleValues == {Absent} \cup {Dict(<<m>>) : m \in LimitValues}

\* The inputs of one rule family, as the part of the product and the part
\* of the rules it reads.
Part(p, r) == [p |-> p, r |-> r]

DisclaimerInputs ==
    {Part([categories |-> c, regulatory_disclaimer |-> d],
          [required_disclaimer |-> q]) :
        c \in {Absent} \cup {List(l) : l \in Seqs(CategoryPool, MaxCategories)},
        d \in DisclaimerValues, q \in RequiredValues}

BannedInputs ==
    {Part([description |-> d, short_description |-> s], [banned_phrases |-> b]) :
        d \in DescriptionValues, s \in ShortDescriptionValues,
        b \in {Absent} \cup {List(l) : l \in Seqs(PhrasePool, MaxPhrases)}}

SeoInputs ==
    {Part([meta_title |-> t, meta_description |-> d], [seo |-> s]) :
        t \in TitleValues, d \in MetaDescriptionValues, s \in SeoValues}

ImagesInputs ==
    {Part([images |-> i], [images |-> m]) :
        i \in ImagesValues, m \in ImagesRuleValues}

\* Two inputs of each family, one that passes its rules and one that does
\* not, under a complete rule configuration.
DisclaimerFew ==
    {Part([categories |-> List(<<c>>), regulatory_disclaimer |-> Absent],
          [required_disclaimer |-> Rx]) : c \in {CatToys, CatSupplements}}

BannedFew ==
    {Part([description |-> Str(<<"a">>), short_description |-> Str(<<"B">>)],
          [banned_phrases |-> List(<<ph>>)]) : ph \in {PhraseZ, PhraseA}}

SeoFew ==
    {Part([meta_title |-> t, meta_description |-> Str(<<"d">>)],
          [seo |-> Dict(<<IntV(1), IntV(1)>>)]) :
        t \in {Str(<<"t">>), Str(<<"t","t">>)}}

ImagesFew ==
    {Part([images |-> i], [images |-> Dict(<<IntV(1)>>)]) :
        i \in {List(<<>>), List(<<Url>>)}}

\* The calls of content_rules_validate: one family ranges over all of its
\* inputs while each of the others takes one of its two.
ContentCalls ==
    (DisclaimerInputs \X BannedFew \X SeoFew \X ImagesFew)
    \cup (DisclaimerFew \X BannedInputs \X SeoFew \X ImagesFew)
    \cup (DisclaimerFew \X BannedFew \X SeoInputs \X ImagesFew)
    \cup (DisclaimerFew \X BannedFew \X SeoFew \X ImagesInputs)

Sku(s) == Str(<<s>>)
OptionValue == Str(<<"o">>)
OptionValuesValues == {Absent, List(<<>>), List(<<OptionValue>>)}
Variant(sku, ov) == [sku |-> sku, option_values |-> ov]
VariantPool ==
    {Variant(Sku(s), ov) : s \in {"A", "B", "C"}, ov \in OptionValuesValues}

\* The variant list with SKUs [A, B, A, C, A].
ExampleVariants ==
    <<Variant(Sku("A"), List(<<OptionValue>>)), Variant(Sku("B"), List(<<>>)),
      Variant(Sku("A"), List(<<OptionValue>>)), Variant(Sku("C"), Absent),
      Variant(Sku("A"), List(<<>>))>>

RootSkuValues == {Absent, Empty, Sku("R")}

\* The calls of bigcommerce_validate, as <<sku, variants>>.
PlatformCalls ==
    (RootSkuValues \X {Absent, List(<<>>), List(ExampleVariants)})
    \cup ({Sku("R")} \X {List(l) : l \in Seqs(VariantPool, MaxVariants)})

MkProduct(sku, price, vs, d, b, s, i) ==
    [sku |-> sku, price |-> price, variants |-> vs,
     categories |-> d.p.categories,
     regulatory_disclaimer |-> d.p.regulatory_disclaimer,
     description |-> b.p.description,
     short_description |-> b.p.short_description,
     meta_title |-> s.p.meta_title,
     meta_description |-> s.p.meta_description,
     images |-> i.p.images]

MkRules(d, b, s, i) ==
    [required_disclaimer |-> d.r.required_disclaimer,
     banned_phrases |-> b.r.banned_phrases,
     seo |-> s.r.seo,
     images |-> i.r.images]

Start(e, at) ==
    /\ entry = e
    /\ pc = at
    /\ errors = <<>>
    /\ idx = 0
    /\ skus = {}
    /\ schemaErrs = <<>>
    /\ contentErrs = <<>>
    /\ platformErrs = <<>>
    /\ result = <<>>
    /\ exc = "none"

\* A call of content_rules_validate(product, rules).
InitContent ==
    /\ \E c \in ContentCalls :
        /\ product = MkProduct(Sku("R"), IntV(10), Absent, c[1], c[2], c[3], c[4])
        /\ rules = MkRules(c[1], c[2], c[3], c[4])
    /\ Start("content_rules_validate", RuleOrder[1])

NextContent ==
    \/ Disclaimer
    \/ BannedPhrases
    \/ SeoTitle
    \/ SeoDescription
    \/ Images
    \/ ContentReturn

SpecContent == InitContent /\ [][NextContent]_vars

\* A call of bigcommerce_validate(product).
InitPlatform ==
    /\ \E c \in PlatformCalls,
          d \in {x \in DisclaimerFew : x.p.categories = List(<<CatToys>>)},
          b \in {x \in BannedFew : x.r.banned_phrases = List(<<PhraseZ>>)},
          s \in {x \in SeoFew : x.p.meta_title = Str(<<"t">>)},
          i \in {x \in ImagesFew : x.p.images = List(<<Url>>)} :
        /\ product = MkProduct(c[1], IntV(10), c[2], d, b, s, i)
        /\ rules = MkRules(d, b, s, i)
    /\ Start("bigcommerce_validate", "bc_root")

NextPlatform ==
    \/ RootSku
    \/ VariantStep
    \/ PlatformReturn

SpecPlatform == InitPlatform /\ [][NextPlatform]_vars

\* The raw records run_all is given: the inputs above and records with data
\* defects (a null or wrongly typed field, a variant without sku, a negative
\* price, no categories), and rule configurations with a key missing.
Number == IntV(5)

RawDisclaimer ==
    DisclaimerFew
    \cup {Part([categories |-> c, regulatory_disclaimer |-> Absent],
               [required_disclaimer |-> Rx]) :
            c \in {Absent, None, List(<<>>), List(<<Number>>),
                   List(<<CatMedical, Number>>)}}
    \cup {Part([categories |-> List(<<CatSupplements>>),
                regulatory_disclaimer |-> d],
               [required_disclaimer |-> q]) :
            d \in {None, Rx}, q \in {Absent, Rx}}

RawBanned ==
    BannedFew
    \cup {Part([description |-> d, short_description |-> Absent],
               [banned_phrases |-> b]) :
            d \in {Absent, None, Number}, b \in {Absent, List(<<PhraseA>>)}}

RawSeo ==
    SeoFew
    \cup {Part([meta_title |-> t, meta_description |-> Absent], [seo |-> s]) :
            t \in {Absent, None, Number, Str(<<"t","t">>)},
            s \in {Absent, Dict(<<IntV(1), IntV(1)>>)}}

RawImages ==
    ImagesFew
    \cup {Part([images |-> i], [images |-> m]) :
            i \in {Absent, None}, m \in {Absent, Dict(<<IntV(1)>>)}}

RawVariants ==
    {Absent, None,
     List(<<Variant(Sku("A"), List(<<OptionValue>>)), Variant(Sku("A"), Absent)>>),
     List(<<Variant(Sku("A"), List(<<OptionValue>>)),
            Variant(Absent, List(<<OptionValue>>))>>)}

\* A call of run_all(product, rules).
Init ==
    /\ \E sku \in {None, Sku("R")}, price \in {IntV(-1), IntV(10)},
          vs \in RawVariants, d \in RawDisclaimer, b \in RawBanned,
          s \in RawSeo, i \in RawImages :
        /\ product = MkProduct(sku, price, vs, d, b, s, i)
        /\ rules = MkRules(d, b, s, i)
    /\ Start("run_all", "schema_validate")

Next ==
    \/ SchemaValidate
    \/ Disclaimer
    \/ BannedPhrases
    \/ SeoTitle
    \/ SeoDescription
    \/ Images
    \/ ContentReturn
    \/ RootSku
    \/ VariantStep
    \/ PlatformReturn
    \/ RunAllReturn

Spec == Init /\ [][Next]_vars

\* -------------------------------------------------------------- claims
\* What the properties are stated with; none of it is used by the model.
WithText(errs, text) == LET Is(e) == e.text = text IN SelectSeq(errs, Is)

Args(errs) == [i \in 1..Len(errs) |-> errs[i].arg]

\* The positions 1..n, in increasing order.
UpTo(n) == [i \in 1..n |-> i]

\* needle is in hay at some offset; letters are compared ignoring case.
OccursIgnoringCase(needle, hay) ==
    \E k \in 0..(Len(hay) - Len(needle)) :
        \A i \in 1..Len(needle) : LowerChar(needle[i]) = LowerChar(hay[k + i])

\* needle is in hay at some offset, character for character.
OccursExactly(needle, hay) ==
    \E k \in 0..(Len(hay) - Len(needle)) :
        \A i \in 1..Len(needle) : needle[i] = hay[k + i]

\* The text of a string field; a field that is absent or None has none.
TextOf(v) == IF v.tag = "str" THEN v.val ELSE <<>>

ListOf(v) == IF v.tag = "list" THEN v.val ELSE <<>>

\* Every key the rule configuration is to have is there.
CompleteRules(r) ==
    /\ r.required_disclaimer.tag # "absent"
    /\ r.banned_phrases.tag # "absent"
    /\ r.seo.tag = "dict"
    /\ r.seo.val[1].tag # "absent"
    /\ r.seo.val[2].tag # "absent"
    /\ r.images.tag = "dict"
    /\ r.images.val[1].tag # "absent"

\* C1: once schema_validate has run, it has reported one Schema error for
\* each violation of the schema the record has.
C1_OneErrorPerViolation ==
    pc # "schema_validate" =>
        Len(schemaErrs) = Cardinality(SchemaViolations(product))

\* C2: a call whose rule configuration lacks a required key never returns a
\* list of errors.
C2_MissingKeyNeverReturns == pc = "done" => CompleteRules(rules)

\* C3: under a complete rule configuration run_all never raises, whatever
\* data defects the raw record has.
C3_DataDefectNeverRaises == CompleteRules(rules) => pc # "raised"

\* ---- C4
Seen(vs, n) == {vs[j].sku : j \in 1..n}

\* The SKUs, as printed, of the variants among the first n that repeat the
\* SKU of an earlier variant.
LaterOccurrences(vs, n) ==
    LET Repeats(j) == \E i \in 1..(j - 1) : vs[i].sku = vs[j].sku
        at == SelectSeq(UpTo(n), Repeats)
    IN  [k \in 1..Len(at) |-> Format(vs[at[k]].sku)]

DuplicateErrors(errs) == WithText(errs, DuplicateSkuError(None).text)

\* C4: after any prefix of the variant list, the duplicate-SKU errors are
\* those of the variants that repeat an earlier SKU, in order, each naming
\* its SKU, and their number is the prefix length minus the number of
\* distinct SKUs seen.
C4_DuplicatesAreLaterOccurrences ==
    pc \in {"bc_variants", "done"} =>
        /\ Args(DuplicateErrors(errors)) = LaterOccurrences(variants(product), idx)
        /\ Len(DuplicateErrors(errors))
             = idx - Cardinality(Seen(variants(product), idx))
        /\ skus = Seen(variants(product), idx)

C4_Witness ==
    /\ pc = "done"
    /\ variants(product) = ExampleVariants
    /\ Args(DuplicateErrors(result)) = <<<<"A">>, <<"A">>>>

\* ---- C9
OptionValuesErrors(errs) == WithText(errs, OptionValuesError(None).text)

\* The SKUs, as printed, of the variants among the first n whose
\* option_values is absent or empty.
WithoutOptionValues(vs, n) ==
    LET Lacks(j) == ListOf(vs[j].option_values) = <<>>
        at == SelectSeq(UpTo(n), Lacks)
    IN  [k \in 1..Len(at) |-> Format(vs[at[k]].sku)]

\* C9: each variant whose option_values is absent or empty has exactly one
\* option-values error naming its SKU, a variant with option values has
\* none, whether or not its SKU is a duplicate.
C9_OneErrorPerVariantWithoutOptionValues ==
    pc \in {"bc_variants", "done"} =>
        Args(OptionValuesErrors(errors))
            = WithoutOptionValues(variants(product), idx)

C9_Witness ==
    /\ pc = "done"
    /\ variants(product) = ExampleVariants
    /\ Args(OptionValuesErrors(result)) = <<<<"B">>, <<"C">>, <<"A">>>>
    /\ Len(DuplicateErrors(result)) = 2

\* ---- C5
BannedErrors(errs) == WithText(errs, BannedError(<<>>).text)

Phrases(r) == ListOf(r.banned_phrases)

\* description + " " + short_description, a field that is absent or None
\* counting as the empty string
CombinedText(p) == TextOf(p.description) \o <<" ">> \o TextOf(p.short_description)

\* The configured phrases that occur in text ignoring case, in configured
\* order and as they are spelled in the configuration.
OccurringPhrases(r, text) ==
    LET Occurs(ph) == OccursIgnoringCase(ph.val, text)
        hits == SelectSeq(Phrases(r), Occurs)
    IN  [i \in 1..Len(hits) |-> hits[i].val]

\* C5, as claimed: the call reports as many banned-phrase errors as there
\* are configured phrases that occur, ignoring case, in the description.
C5_OneErrorPerPhraseInDescription ==
    pc = "done" =>
        Len(BannedErrors(result))
            = Len(OccurringPhrases(rules, TextOf(product.description)))

\* C5, amended: the call reports one banned-phrase error for each configured
\* phrase that occurs, ignoring case, in description + " " + short
\* description, in configured order, each carrying the phrase verbatim, and
\* none for a phrase that does not occur there.
C5_OneErrorPerPhraseInCombinedText ==
    pc = "done" =>
        Args(BannedErrors(result)) = OccurringPhrases(rules, CombinedText(product))

\* Of k = 2 phrases one occurs, and only across description and short
\* description, spelled in another case.
C5_Witness ==
    /\ pc = "done"
    /\ Phrases(rules) = <<PhraseZ, PhraseAB>>
    /\ product.description = Str(<<"a">>)
    /\ product.short_description = Str(<<"B">>)
    /\ Args(BannedErrors(result)) = <<PhraseAB.val>>

\* ---- C6
DisclaimerErrors(errs) == WithText(errs, DisclaimerError.text)

Regulated(p) ==
    \E i \in DOMAIN ListOf(p.categories) :
        \/ OccursIgnoringCase(supplement, p.categories.val[i].val)
        \/ OccursIgnoringCase(medical, p.categories.val[i].val)

RequiredText(r) == TextOf(r.required_disclaimer)

DisclaimerMissing(p, r) ==
    /\ Regulated(p)
    /\ RequiredText(r) # <<>>
    /\ ~OccursExactly(RequiredText(r), TextOf(p.regulatory_disclaimer))

\* The record with its regulatory disclaimer replaced.
WithDisclaimer(p, d) == [p EXCEPT !.regulatory_disclaimer = d]

\* Disclaimers that contain the required text.
Compliant(r) ==
    {Str(RequiredText(r)), Str(<<"s","e","e"," ">> \o RequiredText(r))}

Without(errs, text) == LET Other(e) == e.text # text IN SelectSeq(errs, Other)

\* C6: the call reports the disclaimer error once when a category is
\* regulated, a required disclaimer is configured and the record's
\* disclaimer does not contain it, and not at all otherwise; the same record
\* with a disclaimer that contains the required text gets the same errors
\* without the disclaimer error.
C6_DisclaimerErrorIffMissing ==
    pc = "done" =>
        /\ Len(DisclaimerErrors(result))
             = (IF DisclaimerMissing(product, rules) THEN 1 ELSE 0)
        /\ \A d \in Compliant(rules) :
             content_rules_validate(WithDisclaimer(product, d), rules)
                = Returned(Without(result, DisclaimerError.text))

\* The disclaimer error is reported along with errors of other rules.
C6_Witness ==
    /\ pc = "done"
    /\ DisclaimerMissing(product, rules)
    /\ Len(DisclaimerErrors(result)) = 1
    /\ Len(result) >= 3

\* ---- C8
TitleErrors(errs) == WithText(errs, TitleError.text)

DescriptionErrors(errs) == WithText(errs, DescriptionError.text)

\* The field is a string longer than the k-th configured limit of seo.
TooLong(v, r, k) ==
    /\ v.tag = "str"
    /\ r.seo.tag = "dict"
    /\ r.seo.val[k].tag = "int"
    /\ Len(v.val) > r.seo.val[k].val[1]

\* C8: the call reports one SEO error for meta_title when it is present and
\* longer than the configured seo.title_max and none otherwise, and likewise
\* for meta_description and seo.description_max.
C8_SeoErrorIffOverConfiguredLimit ==
    pc = "done" =>
        /\ Len(TitleErrors(result))
             = (IF TooLong(product.meta_title, rules, 1) THEN 1 ELSE 0)
        /\ Len(DescriptionErrors(result))
             = (IF TooLong(product.meta_description, rules, 2) THEN 1 ELSE 0)

\* A title over its limit of 2 beside a description of the same length
\* within its own limit.
C8_Witness ==
    /\ pc = "done"
    /\ rules.seo = Dict(<<IntV(1), IntV(2)>>)
    /\ Len(TextOf(product.meta_title)) = 2
    /\ Len(TextOf(product.meta_description)) = 1
    /\ Len(TitleErrors(result)) = 1
    /\ Len(DescriptionErrors(result)) = 0

\* ---- C10
ImagesErrors(errs) == WithText(errs, ImagesError.text)

\* C10: under a complete rule configuration the call returns, and its list
\* is what the disclaimer rule, the banned-phrase rule (in configured
\* order), the title rule, the description rule and the image rule each
\* report on their own, in that order.
C10_AllRulesInFixedOrder ==
    /\ CompleteRules(rules) => pc # "raised"
    /\ pc = "done" =>
         result = DisclaimerRule(product, rules).val
                  \o [i \in 1..Len(OccurringPhrases(rules, CombinedText(product)))
                        |-> BannedError(OccurringPhrases(rules, CombinedText(product))[i])]
                  \o SeoTitleRule(product, rules).val
                  \o SeoDescriptionRule(product, rules).val
                  \o ImagesRule(product, rules).val

\* All five kinds of error are reported by one call.
C10_Witness ==
    /\ pc = "done"
    /\ CompleteRules(rules)
    /\ Len(DisclaimerErrors(result)) = 1
    /\ Len(BannedErrors(result)) >= 1
    /\ Len(TitleErrors(result)) = 1
    /\ Len(DescriptionErrors(result)) = 1
    /\ Len(ImagesErrors(result)) = 1

\* ---- C7
\* C7: what run_all returns is the schema errors, then the content errors,
\* then the platform errors, each list being what its checker returns on
\* the same record and rules.
C7_ConcatenationInStageOrder ==
    pc = "done" =>
        /\ result = schemaErrs \o contentErrs \o platformErrs
        /\ schemaErrs \in schema_validate(product)
        /\ content_rules_validate(product, rules) = Returned(contentErrs)
        /\ bigcommerce_validate(product) = Returned(platformErrs)

\* Every stage reports something.
C7_Witness ==
    /\ pc = "done"
    /\ schemaErrs # <<>>
    /\ contentErrs # <<>>
    /\ platformErrs # <<>>
    /\ Len(result) = Len(schemaErrs) + Len(contentErrs) + Len(platformErrs)

====
